---------------------------- MODULE Spec2Model ----------------------------
(***************************************************************************)
(* Model of whisperx_gui.py: the TranscribeWorker that launches and        *)
(* streams the transcription child process, the WhisperXApp handlers that  *)
(* start a job and react to its signals, and the JSON -> timestamped TXT    *)
(* converter (_create_timestamped_txt).                                    *)
(*                                                                         *)
(* Strings are modelled as sequences of tokens (single characters, plus a  *)
(* few multi-character tokens such as "json" or "wav" that are never split *)
(* by the operations modelled), so that basename, splitext, strip and glob *)
(* matching are computed rather than assumed.                              *)
(***************************************************************************)
EXTENDS Integers, Sequences, FiniteSets, TLC

(***************************************************************************)
(* Bounds of the model.                                                    *)
(***************************************************************************)
MaxJobs == 1
MaxLines == 2
MaxCancels == 1
MaxSegs == 2
MaxRuns == 2

(***************************************************************************)
(* Generic helpers.                                                        *)
(***************************************************************************)
\* the largest index of token t in sequence s, 0 when absent (str.rfind + 1)
LastIndexOf(s, t) ==
    LET I == {i \in 1..Len(s) : s[i] = t}
    IN  IF I = {} THEN 0 ELSE CHOOSE i \in I : \A k \in I : k <= i

\* the smallest index of token t in sequence s, 0 when absent (str.find + 1)
FirstIndexOf(s, t) ==
    LET I == {i \in 1..Len(s) : s[i] = t}
    IN  IF I = {} THEN 0 ELSE CHOOSE i \in I : \A k \in I : i <= k

Contains(s, x) == \E i \in 1..Len(s) : s[i] = x

Whitespace == {" ", "\n"}

\* str.strip(): leading and trailing whitespace removed
RECURSIVE LStrip(_)
LStrip(s) ==
    IF s # <<>> /\ Head(s) \in Whitespace THEN LStrip(Tail(s)) ELSE s

RECURSIVE RStrip(_)
RStrip(s) ==
    IF s # <<>> /\ s[Len(s)] \in Whitespace
    THEN RStrip(SubSeq(s, 1, Len(s) - 1)) ELSE s

Strip(s) == RStrip(LStrip(s))

(***************************************************************************)
(* Paths.  A path inside a directory is the pair <<dir, name>> built by    *)
(* os.path.join; names are token sequences.                                *)
(***************************************************************************)
\* os.path.basename: what follows the last separator
Basename(p) == SubSeq(p, LastIndexOf(p, "/") + 1, Len(p))

\* os.path.splitext(p)[0]: cut at the last dot, unless only dots precede it
SplitextRoot(p) ==
    LET k == LastIndexOf(p, ".")
    IN  IF k > 0 /\ \E i \in 1..(k - 1) : p[i] # "."
        THEN SubSeq(p, 1, k - 1) ELSE p

\* base = os.path.splitext(os.path.basename(infile))[0]
BaseOf(infile) == SplitextRoot(Basename(infile))

\* outdir = self.output_dir_input.text().strip() or "output"
OutDirOf(text) == IF Strip(text) = <<>> THEN <<"output">> ELSE Strip(text)

JsonName(base) == base \o <<".", "json">>
TxtName(base) == base \o <<".", "timestamped", ".", "txt">>
ScopedPattern(base) == base \o <<"*", ".", "json">>
UnscopedPattern == <<"*", ".", "json">>


(***************************************************************************)
(* The file system seen by the converter.  A directory is a record         *)
(* [exists, files]; files is the directory listing, in the order           *)
(* os.listdir / glob enumerate it, of entries [name, content].             *)
(***************************************************************************)
DirNames(d) == [i \in 1..Len(d.files) |-> d.files[i].name]

\* os.path.exists(os.path.join(outdir, name))
PathExists(d, name) == d.exists /\ Contains(DirNames(d), name)

FileIndex(d, name) ==
    CHOOSE i \in 1..Len(d.files) : d.files[i].name = name

\* fnmatch translation of a pattern whose only magic token is "*"
RECURSIVE FnMatch(_, _)
FnMatch(name, pat) ==
    IF pat = <<>> THEN name = <<>>
    ELSE IF Head(pat) = "*"
         THEN FnMatch(name, Tail(pat))
              \/ (name # <<>> /\ FnMatch(Tail(name), pat))
         ELSE name # <<>> /\ Head(name) = Head(pat)
              /\ FnMatch(Tail(name), Tail(pat))

\* glob._ishidden
IsHidden(name) == name # <<>> /\ Head(name) = "."

\* what glob lets a pattern match: dot files only for a dot pattern
GlobMatches(name, pat) ==
    FnMatch(name, pat) /\ (IsHidden(pat) \/ ~IsHidden(name))

\* glob.glob(os.path.join(outdir, pattern)): the matching names, in listing
\* order; a directory that cannot be listed yields no match
GlobNames(d, pat) ==
    IF ~d.exists THEN <<>>
    ELSE SelectSeq(DirNames(d), LAMBDA n : GlobMatches(n, pat))

\* json_patterns, in the order the loop tries them
JsonPatterns(base) == <<ScopedPattern(base), UnscopedPattern>>

\* the loop over json_patterns: the first file of the first pattern that
\* matches anything
RECURSIVE FirstGlobHit(_, _, _)
FirstGlobHit(d, pats, k) ==
    IF k > Len(pats) THEN [found |-> FALSE, name |-> <<>>, via |-> 0]
    ELSE LET hits == GlobNames(d, pats[k])
         IN  IF hits # <<>>
             THEN [found |-> TRUE, name |-> hits[1], via |-> k]
             ELSE FirstGlobHit(d, pats, k + 1)

\* artifact resolution of _create_timestamped_txt; via = 0 is the exact path
ResolveArtifact(d, base) ==
    IF PathExists(d, JsonName(base))
    THEN [found |-> TRUE, name |-> JsonName(base), via |-> 0]
    ELSE FirstGlobHit(d, JsonPatterns(base), 1)

(***************************************************************************)
(* Segment conversion.  A start value is [tag, s, f]: tag "num" (a JSON    *)
(* number) or "numstr" (a string float() accepts) of s whole seconds and f *)
(* tenths of a microsecond below the second, "badstr" (a value float()     *)
(* rejects) or "none" (key missing or null).  A text value is [tag, v]:    *)
(* "str" with tokens v, "nonstr" (a JSON value without .strip) or "none".  *)
(***************************************************************************)
MicrosPerSecond == 1000000
SecondsPerMinute == 60
SecondsPerHour == 3600
SecondsPerDay == 86400

\* timedelta(seconds=float(start)): microseconds, rounded half to even
RoundHalfEven(f) ==
    LET q == f \div 10
        r == f % 10
    IN  IF r < 5 THEN q
        ELSE IF r > 5 THEN q + 1
        ELSE IF q % 2 = 0 THEN q ELSE q + 1

\* the normalised timedelta [days, seconds, microseconds] of a start value
TimeDelta(start) ==
    LET us == RoundHalfEven(start.f)
        total == start.s + (us \div MicrosPerSecond)
    IN  [days |-> total \div SecondsPerDay,
         seconds |-> total % SecondsPerDay,
         microseconds |-> us % MicrosPerSecond]

\* "%02d" % n
TwoDigits(n) == IF n < 10 THEN "0" \o ToString(n) ELSE ToString(n)

\* "%06d" % n
SixDigits(n) ==
    LET pad == IF n < 10 THEN "00000" ELSE IF n < 100 THEN "0000"
               ELSE IF n < 1000 THEN "000" ELSE IF n < 10000 THEN "00"
               ELSE IF n < 100000 THEN "0" ELSE ""
    IN  pad \o ToString(n)

\* str(timedelta), as tokens: [D day(s), ]H:MM:SS[.ffffff]
TimeDeltaStr(td) ==
    LET hh == td.seconds \div SecondsPerHour
        mm == (td.seconds % SecondsPerHour) \div SecondsPerMinute
        ss == td.seconds % SecondsPerMinute
        dayPart == IF td.days = 0 THEN <<>>
                   ELSE IF td.days = 1 THEN <<ToString(td.days), " day, ">>
                   ELSE <<ToString(td.days), " days, ">>
        usPart == IF td.microseconds = 0 THEN <<>>
                  ELSE <<".", SixDigits(td.microseconds)>>
    IN  dayPart \o <<ToString(hh), ":", TwoDigits(mm), ":", TwoDigits(ss)>>
        \o usPart

\* start_str.split(".")[0] when "." occurs in start_str
CutAtDot(str) ==
    LET k == FirstIndexOf(str, ".")
    IN  IF k = 0 THEN str ELSE SubSeq(str, 1, k - 1)

\* len(start_str.split(":"))
ColonParts(str) == Cardinality({i \in 1..Len(str) : str[i] = ":"}) + 1

\* the clock of one segment: lines 397-402
ClockOf(start) ==
    LET cut == CutAtDot(TimeDeltaStr(TimeDelta(start)))
    IN  IF ColonParts(cut) = 2 THEN <<"0", ":">> \o cut ELSE cut

\* float(start) succeeds
FloatOk(start) == start.tag \in {"num", "numstr"}

\* the body of the try block succeeds: float(start) and text.strip()
SegmentConverts(seg) == FloatOk(seg.start) /\ seg.text.tag = "str"

\* line = f"[{start_str}] {text.strip()}"
LineOf(seg) == <<"[">> \o ClockOf(seg.start) \o <<"]", " ">> \o Strip(seg.text.v)

\* start is None or text is None: the segment is skipped silently
SegmentSkipped(seg) == seg.start.tag = "none" \/ seg.text.tag = "none"

\* the for loop over segments up to (not including) index k:
\* [lines, warnings, raised]; seg.get on an entry that is no dict raises
RECURSIVE ConvertSegments(_, _, _)
ConvertSegments(segs, k, acc) ==
    IF k > Len(segs) THEN acc
    ELSE LET seg == segs[k]
         IN  IF ~seg.isdict
             THEN [acc EXCEPT !.raised = "AttributeError"]
             ELSE IF SegmentSkipped(seg)
             THEN ConvertSegments(segs, k + 1, acc)
             ELSE IF SegmentConverts(seg)
             THEN ConvertSegments(segs, k + 1,
                      [acc EXCEPT !.lines = Append(@, LineOf(seg))])
             ELSE ConvertSegments(segs, k + 1,
                      [acc EXCEPT !.warnings = @ + 1])

(***************************************************************************)
(* _create_timestamped_txt as a function of the two text fields and the    *)
(* file system: the file system it leaves, the log entries it appends and  *)
(* the exception it raises ("none" when it returns normally).              *)
(*                                                                         *)
(* A JSON file's content is [kind, segtag, segs]: kind "garbage" (does not *)
(* decode), "list" (decodes to a value without .get) or "dict"; segtag     *)
(* tells whether data.get("segments") is a list ("list"), absent           *)
(* ("missing") or another value ("notlist").  A text file's content is     *)
(* [kind |-> "txt", segtag |-> "txt", segs |-> the tokens written].        *)
(***************************************************************************)
LogEntry(tag, text, code) == [tag |-> tag, text |-> text, code |-> code]

NoLines == [lines |-> <<>>, warnings |-> 0, raised |-> "none"]

\* "\n".join(lines)
RECURSIVE JoinLines(_)
JoinLines(lines) ==
    IF lines = <<>> THEN <<>>
    ELSE IF Len(lines) = 1 THEN lines[1]
    ELSE lines[1] \o <<"\n">> \o JoinLines(Tail(lines))

\* a code point the utf-8 codec refuses to encode (a lone surrogate, which
\* json.load accepts in a string)
Unencodable == {"U+D800"}

\* f.write(...) on a file opened with encoding="utf-8" raises
WriteRaises(content) == \E i \in 1..Len(content) : content[i] \in Unencodable

TxtContent(tokens) == [kind |-> "txt", segtag |-> "txt", segs |-> tokens]

\* the file is opened with "a": what is written is added to what it holds
WriteFile_Appends(d, name, content) ==
    IF Contains(DirNames(d), name)
    THEN [d EXCEPT !.files[FileIndex(d, name)].content.segs =
                      @ \o content.segs]
    ELSE [d EXCEPT !.files = Append(@, [name |-> name, content |-> content])]

\* open(txt_path, "w") ... f.write("\n".join(lines)): the file is created,
\* or truncated where it stands in the listing
WriteFile(d, name, content) ==
    IF Contains(DirNames(d), name)
    THEN [d EXCEPT !.files[FileIndex(d, name)].content = content]
    ELSE [d EXCEPT !.files = Append(@, [name |-> name, content |-> content])]

\* a failing conversion has already opened, and so emptied, the text files
ConvResult_Truncates(fsys, logs, raised, res, lines) ==
    [fs |-> IF raised = "none" THEN fsys
            ELSE [d \in DOMAIN fsys |->
                    [fsys[d] EXCEPT !.files =
                       [i \in 1..Len(@) |->
                          IF @[i].content.kind = "txt"
                          THEN [@[i] EXCEPT !.content = TxtContent(<<>>)]
                          ELSE @[i]]]],
     logs |-> logs, raised |-> raised, found |-> res.found,
     artifact |-> res.name, via |-> res.via, lines |-> lines]

ConvResult(fsys, logs, raised, res, lines) ==
    [fs |-> fsys, logs |-> logs, raised |-> raised, found |-> res.found,
     artifact |-> res.name, via |-> res.via, lines |-> lines]

CreateTimestampedTxt(infileText, outdirText, fsys) ==
    LET infile == Strip(infileText)
        outdir == OutDirOf(outdirText)
        base == BaseOf(infile)
        d == fsys[outdir]
        res == ResolveArtifact(d, base)
        foundLog == IF res.via = 0 THEN <<>>
                    ELSE <<LogEntry("Found JSON file", res.name, 0)>>
    IN  IF ~res.found
        THEN IF ~d.exists
             THEN \* os.listdir(outdir) raises before anything is logged
                  ConvResult(fsys, <<>>, "ListdirError", res, <<>>)
             ELSE ConvResult(fsys,
                      <<LogEntry("Files in output directory", <<>>,
                                 Len(d.files))>>,
                      "JSON output not found", res, <<>>)
        ELSE
        LET data == d.files[FileIndex(d, res.name)].content
        IN  IF data.kind = "garbage"
            THEN ConvResult(fsys, foundLog, "Invalid JSON file", res, <<>>)
            ELSE IF data.kind # "dict"
            THEN ConvResult(fsys, foundLog, "AttributeError", res, <<>>)
            ELSE IF data.segtag # "list"
            THEN ConvResult(fsys, foundLog, "segments missing or not a list",
                            res, <<>>)
            ELSE
            LET conv == ConvertSegments(data.segs, 1, NoLines)
                warnLogs == [i \in 1..conv.warnings |->
                               LogEntry("Warning: Skipping segment", <<>>, 0)]
            IN  IF conv.raised # "none"
                THEN ConvResult(fsys, foundLog \o warnLogs, conv.raised,
                                res, <<>>)
                ELSE IF conv.lines = <<>>
                THEN ConvResult(fsys, foundLog \o warnLogs,
                                "No valid segments", res, <<>>)
                ELSE IF WriteRaises(JoinLines(conv.lines))
                THEN \* open(txt_path, "w") has truncated the file
                     ConvResult(
                       [fsys EXCEPT ![outdir] =
                          WriteFile(d, TxtName(base), TxtContent(<<>>))],
                       foundLog \o warnLogs, "UnicodeEncodeError", res, <<>>)
                ELSE ConvResult(
                       [fsys EXCEPT ![outdir] =
                          WriteFile(d, TxtName(base),
                              TxtContent(JoinLines(conv.lines)))],
                       foundLog \o warnLogs \o
                         <<LogEntry("Timestamped TXT created", TxtName(base), 0),
                           LogEntry("Processed segments", <<>>,
                                    Len(conv.lines))>>,
                       "none", res, conv.lines)

(***************************************************************************)
(* The job pipeline: WhisperXApp (primary thread), TranscribeWorker        *)
(* (thread-pool thread) and the child process.                             *)
(***************************************************************************)
VARIABLES
    ACTIVATE_SCRIPT,          \* "None", or the activate.bat path: "missing" / "present"
    cwdIsScriptDir,           \* the process's working directory is the source directory
    file_input,               \* text of the input-file field
    output_dir_input,         \* text of the output-directory field
    timestamped_txt_checkbox, \* "Include timestamps in TXT"
    run_btn,                  \* Transcribe button enabled
    cancel_btn,               \* Cancel button enabled
    log,                      \* the activity log, oldest entry first
    cancelDialog,             \* cancel()'s message box is open (nested event loop)
    ncancels,                 \* cancel requests so far
    njobs,                    \* Transcribe clicks that passed the file check so far
    worker,                   \* worker[j]: the j-th TranscribeWorker and its child
    chan,                     \* signals emitted and not yet delivered, in order
    fs,                       \* output directories
    tempScript,               \* run_whisperx.bat exists next to the source file
    ppCalls                   \* history of _create_timestamped_txt invocations

vars == <<ACTIVATE_SCRIPT, cwdIsScriptDir, file_input, output_dir_input,
          timestamped_txt_checkbox, run_btn, cancel_btn, log, cancelDialog,
          ncancels, njobs, worker, chan, fs, tempScript, ppCalls>>

config == <<ACTIVATE_SCRIPT, cwdIsScriptDir>>
counters == <<ncancels, njobs>>
fields == <<file_input, output_dir_input, timestamped_txt_checkbox>>
buttons == <<run_btn, cancel_btn>>

Jobs == 1..MaxJobs

EmptyText == <<>>
FileA == <<"a", ".", "wav">>
FileB == <<"m", "/", "a", "b", ".", "wav">>
FileTexts == {EmptyText, FileA, FileB}
DirTexts == {EmptyText, <<"d", "1">>}
Dirs == {OutDirOf(t) : t \in DirTexts}
OutFormats == {"txt", "json"}
TokenTexts == {EmptyText, <<"tok">>}
ExitCodes == {0, 1}

\* the child's idx-th line as readline returns it: text lines and blank
\* lines alternate
RawLine(idx) == IF idx % 2 = 1 THEN <<"t", " ", "\n">> ELSE <<"\n">>

GoodDoc ==
    [kind |-> "dict", segtag |-> "list",
     segs |-> <<[isdict |-> TRUE,
                 start |-> [tag |-> "num", s |-> 65, f |-> 0],
                 text |-> [tag |-> "str", v |-> <<" ", "B", "y", "e">>]]>>]
NoSegmentsDoc == [kind |-> "dict", segtag |-> "missing", segs |-> <<>>]

\* what the child may leave in its output directory when it exits with 0
Artifacts(base) ==
    { <<>>,
      <<[name |-> JsonName(base), content |-> GoodDoc]>>,
      <<[name |-> <<"z", ".", "json">>, content |-> NoSegmentsDoc]>> }

RECURSIVE WriteAll(_, _)
WriteAll(d, files) ==
    IF files = <<>> THEN d
    ELSE WriteAll(WriteFile(d, Head(files).name, Head(files).content),
                  Tail(files))

\* the tokens of cmd_list the model interprets; the model, compute type,
\* device, diarization and token arguments are passed through unread
NoCmd == [infile |-> EmptyText, outdir |-> EmptyText, format |-> ""]

IdleWorker ==
    [pc |-> "idle", cmd |-> NoCmd, requested |-> FALSE, spawnable |-> TRUE,
     viaShell |-> FALSE, proc |-> "none", status |-> 0, stdoutOpen |-> FALSE,
     pipe |-> <<>>, written |-> <<>>, returncode |-> [set |-> FALSE, v |-> 0],
     exc |-> <<>>, emitted |-> <<>>]

\* a signal in flight; idx (the line's position in the child's output) and
\* job are history fields
Signal(sig, text, code, idx, j) ==
    [sig |-> sig, text |-> text, code |-> code, idx |-> idx, job |-> j]

\* a log entry; idx and job are history fields
Entry(tag, text, code, j) ==
    [tag |-> tag, text |-> text, code |-> code, idx |-> 0, job |-> j]

Tagged(entries, j) ==
    [i \in 1..Len(entries) |->
        Entry(entries[i].tag, entries[i].text, entries[i].code, j)]

Init ==
    /\ ACTIVATE_SCRIPT \in {"None", "missing", "present"}
    /\ cwdIsScriptDir \in BOOLEAN
    /\ ACTIVATE_SCRIPT # "present" => cwdIsScriptDir
    /\ file_input = EmptyText
    /\ output_dir_input = EmptyText
    /\ timestamped_txt_checkbox = FALSE
    /\ run_btn = TRUE
    /\ cancel_btn = FALSE
    /\ log = <<>>
    /\ cancelDialog = FALSE
    /\ ncancels = 0
    /\ njobs = 0
    /\ worker = [j \in Jobs |-> IdleWorker]
    /\ chan = <<>>
    /\ fs = [d \in Dirs |-> [exists |-> FALSE, files |-> <<>>]]
    /\ tempScript = FALSE
    /\ ppCalls = <<>>

(***************************************************************************)
(* User actions on the form.  While cancel()'s message box is open the     *)
(* window takes no input.                                                  *)
(***************************************************************************)
EditFileInput(t) ==
    /\ ~cancelDialog
    /\ file_input # t
    /\ file_input' = t
    /\ UNCHANGED <<config, output_dir_input, timestamped_txt_checkbox, buttons,
                   log, cancelDialog, counters, worker, chan, fs, tempScript,
                   ppCalls>>

EditOutputDir(t) ==
    /\ ~cancelDialog
    /\ output_dir_input # t
    /\ output_dir_input' = t
    /\ UNCHANGED <<config, file_input, timestamped_txt_checkbox, buttons, log,
                   cancelDialog, counters, worker, chan, fs, tempScript,
                   ppCalls>>

ToggleTimestamped ==
    /\ ~cancelDialog
    /\ timestamped_txt_checkbox' = ~timestamped_txt_checkbox
    /\ UNCHANGED <<config, file_input, output_dir_input, buttons, log,
                   cancelDialog, counters, worker, chan, fs, tempScript,
                   ppCalls>>

(***************************************************************************)
(* run_transcription: the Transcribe button's handler.                     *)
(***************************************************************************)
\* the click reaches the handler
RunClicked == run_btn /\ ~cancelDialog

\* not infile or not Path(infile).exists(): the files of FileTexts exist
InfileInvalid(infile) == infile = EmptyText

\* the --output_format token of cmd
LaunchFormat(outformat, timestamped_txt) ==
    IF timestamped_txt /\ outformat # "all" THEN "all" ELSE outformat

\* the log entry that goes with the forced format
FormatLog(outformat, timestamped_txt) ==
    IF timestamped_txt /\ outformat # "all"
    THEN <<Entry("Changed output format to 'all'", <<>>, 0, 0)>> ELSE <<>>

\* os.makedirs(outdir, exist_ok=True)
MakeDirs(fsys, outdir) == [fsys EXCEPT ![outdir].exists = TRUE]

\* first early return: nothing happens but a warning box
RunTranscriptionNoFile ==
    /\ RunClicked
    /\ InfileInvalid(Strip(file_input))
    /\ UNCHANGED vars

\* second early return (diarization asked for without a token): the
\* directory was made and the format entry logged
RunTranscriptionNoToken(outformat) ==
    /\ RunClicked
    /\ njobs < MaxJobs
    /\ ~InfileInvalid(Strip(file_input))
    /\ fs' = MakeDirs(fs, OutDirOf(output_dir_input))
    /\ log' = log \o FormatLog(outformat, timestamped_txt_checkbox)
    /\ njobs' = njobs + 1
    /\ UNCHANGED <<config, fields, buttons, cancelDialog, ncancels, worker,
                   chan, tempScript, ppCalls>>

RunTranscription(outformat, diarize, hf_token) ==
    /\ RunClicked
    /\ njobs < MaxJobs
    /\ ~InfileInvalid(Strip(file_input))
    /\ ~(diarize /\ hf_token = EmptyText)
    /\ LET j == njobs + 1
           infile == Strip(file_input)
           outdir == OutDirOf(output_dir_input)
       IN  /\ fs' = MakeDirs(fs, outdir)
           /\ log' = log \o FormatLog(outformat, timestamped_txt_checkbox)
                         \o <<Entry("Launching", infile, 0, j)>>
           /\ run_btn' = FALSE
           /\ cancel_btn' = TRUE
           /\ njobs' = j
           /\ worker' = [worker EXCEPT ![j] =
                  [IdleWorker EXCEPT
                     !.pc = "start",
                     !.requested = timestamped_txt_checkbox,
                     !.cmd = [infile |-> infile, outdir |-> outdir,
                              format |-> LaunchFormat(outformat,
                                            timestamped_txt_checkbox)]]]
    /\ UNCHANGED <<config, fields, cancelDialog, ncancels, chan, tempScript,
                   ppCalls>>

(***************************************************************************)
(* cancel: the Cancel button's handler.  QMessageBox.information runs a    *)
(* nested event loop, in which queued signals are still delivered; the log *)
(* entry is appended when the box is closed.                               *)
(***************************************************************************)
\* the handler gives the Transcribe button back at once
CancelClicked_ResetsButtons ==
    /\ cancel_btn
    /\ ~cancelDialog
    /\ ncancels < MaxCancels
    /\ cancelDialog' = TRUE
    /\ ncancels' = ncancels + 1
    /\ run_btn' = TRUE
    /\ cancel_btn' = FALSE
    /\ UNCHANGED <<config, fields, log, njobs, worker, chan, fs, tempScript,
                   ppCalls>>

CancelClicked ==
    /\ cancel_btn
    /\ ~cancelDialog
    /\ ncancels < MaxCancels
    /\ cancelDialog' = TRUE
    /\ ncancels' = ncancels + 1
    /\ UNCHANGED <<config, fields, buttons, log, njobs, worker, chan, fs,
                   tempScript, ppCalls>>

CancelReturns ==
    /\ cancelDialog
    /\ cancelDialog' = FALSE
    /\ log' = Append(log, Entry("Cancel requested (best effort).", <<>>, 0, 0))
    /\ UNCHANGED <<config, fields, buttons, counters, worker, chan, fs,
                   tempScript, ppCalls>>

(***************************************************************************)
(* TranscribeWorker.run, one action per step of worker j.                  *)
(***************************************************************************)
\* ACTIVATE_SCRIPT and os.path.exists(ACTIVATE_SCRIPT): the batch-script path
UsesActivation(as) == as = "present"

\* the worker writes run_whisperx.bat and starts the shell on it, or starts
\* the program itself; whatever raises on the way lands in the handler
WorkerLaunch(j, spawnable, scriptWritable) ==
    /\ worker[j].pc = "start"
    /\ IF UsesActivation(ACTIVATE_SCRIPT)
       THEN IF ~scriptWritable
            THEN \* open(temp_script, "w") raises
                 /\ worker' = [worker EXCEPT ![j].pc = "except",
                                  ![j].spawnable = spawnable,
                                  ![j].exc = <<"OSError">>]
                 /\ UNCHANGED tempScript
            ELSE \* Popen(temp_script, shell=True): the shell starts, whether
                 \* or not it will find the program
                 /\ tempScript' = TRUE
                 /\ worker' = [worker EXCEPT ![j].pc = "loop",
                                  ![j].spawnable = spawnable,
                                  ![j].viaShell = TRUE,
                                  ![j].proc = "running",
                                  ![j].stdoutOpen = TRUE]
       ELSE /\ scriptWritable
            /\ UNCHANGED tempScript
            /\ IF ~spawnable
               THEN \* Popen(self.cmd_list) raises
                    worker' = [worker EXCEPT ![j].pc = "except",
                                  ![j].spawnable = spawnable,
                                  ![j].exc = <<"FileNotFoundError">>]
               ELSE worker' = [worker EXCEPT ![j].pc = "loop",
                                  ![j].spawnable = spawnable,
                                  ![j].proc = "running",
                                  ![j].stdoutOpen = TRUE]
    /\ UNCHANGED <<config, fields, buttons, log, cancelDialog, counters, chan,
                   fs, ppCalls>>

\* the loop stops as soon as the process is gone, or at an empty read
LoopBreaks_Or(line, exited) == line = <<>> \/ exited

\* if not line and proc.poll() is not None: break
LoopBreaks(line, exited) == line = <<>> /\ exited

\* if line: (a line read from the pipe ends with its newline)
LineTruthy(line) == line # <<>>

\* proc.stdout.readline() returned: a buffered line, or "" at end of file
WorkerReadLine(j) ==
    /\ worker[j].pc = "loop"
    /\ worker[j].pipe # <<>> \/ ~worker[j].stdoutOpen
    /\ LET w == worker[j]
           line == IF w.pipe # <<>> THEN Head(w.pipe).raw ELSE <<>>
           rest == IF w.pipe # <<>> THEN Tail(w.pipe) ELSE <<>>
           exited == w.proc = "exited"
       IN  IF LoopBreaks(line, exited)
           THEN /\ worker' = [worker EXCEPT ![j].pc = "cleanup",
                                 ![j].pipe = rest,
                                 ![j].returncode = [set |-> TRUE, v |-> w.status]]
                /\ UNCHANGED chan
           ELSE IF LineTruthy(line)
           THEN LET sig == Signal("progress", Strip(line), 0,
                                  Head(w.pipe).idx, j)
                IN  /\ chan' = Append(chan, sig)
                    /\ worker' = [worker EXCEPT ![j].pipe = rest,
                                     ![j].emitted = Append(@, sig)]
           ELSE \* end of file while the process lives: the loop spins
                /\ UNCHANGED <<worker, chan>>
    /\ UNCHANGED <<config, fields, buttons, log, cancelDialog, counters, fs,
                   tempScript, ppCalls>>

\* the exception leaves run() uncaught: the worker ends without a signal
WorkerReadRaises_Uncaught(j) ==
    /\ worker[j].pc = "loop"
    /\ worker[j].pipe # <<>>
    /\ worker' = [worker EXCEPT ![j].pc = "done", ![j].pipe = Tail(@),
                     ![j].exc = <<"UnicodeDecodeError">>]
    /\ UNCHANGED <<config, fields, buttons, log, cancelDialog, counters, chan,
                   fs, tempScript, ppCalls>>

\* readline raises (a byte sequence the text decoder rejects)
WorkerReadRaises(j) ==
    /\ worker[j].pc = "loop"
    /\ worker[j].pipe # <<>>
    /\ worker' = [worker EXCEPT ![j].pc = "except",
                     ![j].pipe = Tail(@),
                     ![j].exc = <<"UnicodeDecodeError">>]
    /\ UNCHANGED <<config, fields, buttons, log, cancelDialog, counters, chan,
                   fs, tempScript, ppCalls>>

\* os.path.exists(ACTIVATE_SCRIPT) with ACTIVATE_SCRIPT = None raises TypeError
CleanupRaises(as) == as = "None"

\* os.path.exists(ACTIVATE_SCRIPT) and os.path.exists("run_whisperx.bat"),
\* the second path being relative to the working directory
CleanupRemoves(as, inScriptDir, scriptThere) ==
    as = "present" /\ inScriptDir /\ scriptThere

WorkerCleanup(j) ==
    /\ worker[j].pc = "cleanup"
    /\ IF CleanupRaises(ACTIVATE_SCRIPT)
       THEN /\ worker' = [worker EXCEPT ![j].pc = "except",
                             ![j].exc = <<"TypeError">>]
            /\ UNCHANGED tempScript
       ELSE /\ worker' = [worker EXCEPT ![j].pc = "emit"]
            /\ tempScript' =
                  IF CleanupRemoves(ACTIVATE_SCRIPT, cwdIsScriptDir, tempScript)
                  THEN FALSE ELSE tempScript
    /\ UNCHANGED <<config, fields, buttons, log, cancelDialog, counters, chan,
                   fs, ppCalls>>

\* the value of self.signals.finished.emit(proc.returncode)
FinishedCode(w) == w.returncode.v

\* self.signals.finished.emit(proc.returncode)
WorkerEmitFinished(j) ==
    /\ worker[j].pc = "emit"
    /\ LET sig == Signal("finished", <<>>, FinishedCode(worker[j]), 0, j)
       IN  /\ chan' = Append(chan, sig)
           /\ worker' = [worker EXCEPT ![j].pc = "done",
                            ![j].emitted = Append(@, sig)]
    /\ UNCHANGED <<config, fields, buttons, log, cancelDialog, counters, fs,
                   tempScript, ppCalls>>

\* the handler reports the exception as one more output line
WorkerExceptError_AsProgress(j) ==
    /\ worker[j].pc = "except"
    /\ LET sig == Signal("progress", worker[j].exc, 0, 0, j)
       IN  /\ chan' = Append(chan, sig)
           /\ worker' = [worker EXCEPT ![j].pc = "except_finished",
                            ![j].emitted = Append(@, sig)]
    /\ UNCHANGED <<config, fields, buttons, log, cancelDialog, counters, fs,
                   tempScript, ppCalls>>

\* except Exception as e: self.signals.error.emit(str(e))
WorkerExceptError(j) ==
    /\ worker[j].pc = "except"
    /\ LET sig == Signal("error", worker[j].exc, 0, 0, j)
       IN  /\ chan' = Append(chan, sig)
           /\ worker' = [worker EXCEPT ![j].pc = "except_finished",
                            ![j].emitted = Append(@, sig)]
    /\ UNCHANGED <<config, fields, buttons, log, cancelDialog, counters, fs,
                   tempScript, ppCalls>>

\* the handler reports the error and forgets the finished signal
WorkerExceptFinished_NoEmit(j) ==
    /\ worker[j].pc = "except_finished"
    /\ worker' = [worker EXCEPT ![j].pc = "done"]
    /\ UNCHANGED <<config, fields, buttons, log, cancelDialog, counters, chan,
                   fs, tempScript, ppCalls>>

\* ... self.signals.finished.emit(-1)
WorkerExceptFinished(j) ==
    /\ worker[j].pc = "except_finished"
    /\ LET sig == Signal("finished", <<>>, -1, 0, j)
       IN  /\ chan' = Append(chan, sig)
           /\ worker' = [worker EXCEPT ![j].pc = "done",
                            ![j].emitted = Append(@, sig)]
    /\ UNCHANGED <<config, fields, buttons, log, cancelDialog, counters, fs,
                   tempScript, ppCalls>>

(***************************************************************************)
(* The child process of worker j: the program, or the shell running the    *)
(* batch script.  It writes lines to the merged pipe, may close its end of *)
(* the pipe early, and exits with a status.                                *)
(***************************************************************************)
ChildWrites(j) ==
    /\ worker[j].proc = "running"
    /\ worker[j].stdoutOpen
    /\ Len(worker[j].written) < MaxLines
    /\ LET idx == Len(worker[j].written) + 1
           line == [idx |-> idx, raw |-> RawLine(idx)]
       IN  worker' = [worker EXCEPT ![j].pipe = Append(@, line),
                         ![j].written = Append(@, line)]
    /\ UNCHANGED <<config, fields, buttons, log, cancelDialog, counters, chan,
                   fs, tempScript, ppCalls>>

ChildClosesStdout(j) ==
    /\ worker[j].proc = "running"
    /\ worker[j].stdoutOpen
    /\ worker' = [worker EXCEPT ![j].stdoutOpen = FALSE]
    /\ UNCHANGED <<config, fields, buttons, log, cancelDialog, counters, chan,
                   fs, tempScript, ppCalls>>

\* a shell that cannot start the program exits with a non-zero status and
\* leaves no artifact; a program that exits with 0 may have written some
ChildExits(j, code, files) ==
    /\ worker[j].proc = "running"
    /\ worker[j].spawnable \/ code # 0
    /\ code # 0 => files = <<>>
    /\ worker' = [worker EXCEPT ![j].proc = "exited", ![j].status = code,
                     ![j].stdoutOpen = FALSE]
    /\ fs' = [fs EXCEPT ![worker[j].cmd.outdir] = WriteAll(@, files)]
    /\ UNCHANGED <<config, fields, buttons, log, cancelDialog, counters, chan,
                   tempScript, ppCalls>>

\* one call of _create_timestamped_txt as the model keeps it: the job and
\* exit code it was made for, what it read from the form, the file system
\* before and after, and what it did
PpRecord(j, code, infileText, outdirText, fsys, r) ==
    [job |-> j, code |-> code,
     infile |-> Strip(infileText), outdir |-> OutDirOf(outdirText),
     before |-> fsys, after |-> r.fs,
     raised |-> r.raised, found |-> r.found,
     artifact |-> r.artifact, via |-> r.via,
     logs |-> r.logs, lines |-> r.lines]

(***************************************************************************)
(* The primary thread's event loop delivers the queued signals in the      *)
(* order they were emitted.                                                *)
(***************************************************************************)
\* worker.signals.progress.connect(self.append_log)
DeliverProgress ==
    /\ chan # <<>>
    /\ Head(chan).sig = "progress"
    /\ LET m == Head(chan)
       IN  log' = Append(log, [Entry("progress", m.text, 0, m.job) EXCEPT
                                  !.idx = m.idx])
    /\ chan' = Tail(chan)
    /\ UNCHANGED <<config, fields, buttons, cancelDialog, counters, worker, fs,
                   tempScript, ppCalls>>

\* the error slot gives the Transcribe button back as well
DeliverError_ResetsButtons ==
    /\ chan # <<>>
    /\ Head(chan).sig = "error"
    /\ log' = Append(log, Entry("[ERROR]", Head(chan).text, 0, Head(chan).job))
    /\ chan' = Tail(chan)
    /\ run_btn' = TRUE
    /\ cancel_btn' = FALSE
    /\ UNCHANGED <<config, fields, cancelDialog, counters, worker, fs,
                   tempScript, ppCalls>>

\* worker.signals.error.connect(lambda e: self.append_log("[ERROR] " + e))
DeliverError ==
    /\ chan # <<>>
    /\ Head(chan).sig = "error"
    /\ log' = Append(log, Entry("[ERROR]", Head(chan).text, 0, Head(chan).job))
    /\ chan' = Tail(chan)
    /\ UNCHANGED <<config, fields, buttons, cancelDialog, counters, worker, fs,
                   tempScript, ppCalls>>

\* every exit code but the worker's own -1 counts as success
IsSuccess_NonNegative(exit_code) == exit_code >= 0

\* if exit_code == 0
IsSuccess(exit_code) == exit_code = 0

\* _on_finished, run for the signal at position i of the queue
OnFinishedAt(i) ==
    /\ i \in 1..Len(chan)
    /\ chan[i].sig = "finished"
    /\ LET m == chan[i]
           j == m.job
           r == CreateTimestampedTxt(file_input, output_dir_input, fs)
       IN  /\ run_btn' = TRUE
           /\ cancel_btn' = FALSE
           /\ IF IsSuccess(m.code)
              THEN IF timestamped_txt_checkbox
                   THEN /\ fs' = r.fs
                        /\ log' = log
                              \o <<Entry("Process finished successfully.", <<>>, 0, j)>>
                              \o Tagged(r.logs, j)
                              \o (IF r.raised = "none" THEN <<>>
                                  ELSE <<Entry("[ERROR] Failed to create timestamped TXT",
                                               <<r.raised>>, 0, j)>>)
                        /\ ppCalls' = Append(ppCalls,
                               PpRecord(j, m.code, file_input,
                                        output_dir_input, fs, r))
                   ELSE /\ log' = Append(log,
                               Entry("Process finished successfully.", <<>>, 0, j))
                        /\ UNCHANGED <<fs, ppCalls>>
              ELSE /\ log' = Append(log,
                          Entry("Process exited with code", <<>>, m.code, j))
                   /\ UNCHANGED <<fs, ppCalls>>
    /\ chan' = SubSeq(chan, 1, i - 1) \o SubSeq(chan, i + 1, Len(chan))
    /\ UNCHANGED <<config, fields, cancelDialog, counters, worker, tempScript>>

\* a finished signal overtakes the signals queued before it
OnFinished_Overtakes == \E i \in 1..Len(chan) : OnFinishedAt(i)

\* worker.signals.finished.connect(self._on_finished): a queued connection,
\* served when the signal is at the head of the queue
OnFinished == OnFinishedAt(1)

(***************************************************************************)
(* The specification.                                                      *)
(***************************************************************************)
UserStep ==
    \/ \E t \in FileTexts : EditFileInput(t)
    \/ \E t \in DirTexts : EditOutputDir(t)
    \/ ToggleTimestamped
    \/ RunTranscriptionNoFile
    \/ \E f \in OutFormats : RunTranscriptionNoToken(f)
    \/ \E f \in OutFormats, dz \in BOOLEAN, tok \in TokenTexts :
          RunTranscription(f, dz, tok)
    \/ CancelClicked
    \/ CancelReturns

WorkerStep(j) ==
    \/ \E sp \in BOOLEAN, wr \in BOOLEAN : WorkerLaunch(j, sp, wr)
    \/ WorkerReadLine(j)
    \/ WorkerReadRaises(j)
    \/ WorkerCleanup(j)
    \/ WorkerEmitFinished(j)
    \/ WorkerExceptError(j)
    \/ WorkerExceptFinished(j)

ChildExitsSomehow(j) ==
    \E code \in ExitCodes, files \in Artifacts(BaseOf(worker[j].cmd.infile)) :
        ChildExits(j, code, files)

ChildStep(j) ==
    \/ ChildWrites(j)
    \/ ChildClosesStdout(j)
    \/ ChildExitsSomehow(j)

DeliverStep ==
    \/ DeliverProgress
    \/ DeliverError
    \/ OnFinished

Next ==
    \/ UserStep
    \/ \E j \in Jobs : WorkerStep(j)
    \/ \E j \in Jobs : ChildStep(j)
    \/ DeliverStep

Spec == Init /\ [][Next]_vars

(***************************************************************************)
(* The specification for termination.  The thread pool runs every worker   *)
(* it was given (QThreadPool.start), every child process exits in the end  *)
(* (the proviso under which termination is promised), and the event loop   *)
(* of the primary thread, nested in a message box or not, serves the       *)
(* signal at the head of its queue.  Here the form is filled in before     *)
(* Transcribe is clicked: the edits made while a job runs are those of     *)
(* Spec, they change file_input, output_dir_input and the checkbox only,   *)
(* and no guard of the worker, of the child or of the event loop reads     *)
(* these.                                                                  *)
(***************************************************************************)
\* one queued signal is taken off the head of the queue and handled
EventLoopServes ==
    /\ chan # <<>>
    /\ chan' = Tail(chan)

FormStep ==
    \/ \E t \in FileTexts : EditFileInput(t)
    \/ \E t \in DirTexts : EditOutputDir(t)
    \/ ToggleTimestamped

FairNext ==
    \/ (njobs = 0 /\ FormStep)
    \/ RunTranscriptionNoFile
    \/ \E f \in OutFormats : RunTranscriptionNoToken(f)
    \/ \E f \in OutFormats, dz \in BOOLEAN, tok \in TokenTexts :
          RunTranscription(f, dz, tok)
    \/ CancelClicked
    \/ CancelReturns
    \/ \E j \in Jobs : WorkerStep(j)
    \/ \E j \in Jobs : ChildStep(j)
    \/ DeliverStep

FairSpec ==
    /\ Init
    /\ [][FairNext]_vars
    /\ \A j \in Jobs : WF_vars(WorkerStep(j))
    /\ \A j \in Jobs : WF_vars(ChildExitsSomehow(j))
    /\ WF_chan(EventLoopServes)

(***************************************************************************)
(* The converter on its own: _create_timestamped_txt called, up to MaxRuns *)
(* times in a row with the form left alone, on an output directory that    *)
(* holds one document in one of several places.  The documents are all     *)
(* the segment lists of at most MaxSegs entries over SegKinds, and the     *)
(* documents that fail earlier.                                            *)
(***************************************************************************)
Seg(start, text) == [isdict |-> TRUE, start |-> start, text |-> text]
Num(s, f) == [tag |-> "num", s |-> s, f |-> f]
Str(v) == [tag |-> "str", v |-> v]
NoValue == [tag |-> "none", s |-> 0, f |-> 0]
NoText == [tag |-> "none", v |-> <<>>]

SegZero == Seg(Num(0, 0), Str(<<"H", "i">>))
SegMinute == Seg(Num(65, 0), Str(<<" ", "B", "y", "e">>))
\* "start": 3661.9
SegHour == Seg(Num(3661, 9000000), Str(<<"x">>))
\* "start": 59.9999996
SegNearMinute == Seg(Num(59, 9999996), Str(<<"r">>))
\* "start": 86400
SegDay == Seg(Num(86400, 0), Str(<<"d">>))
\* "start": "12.5"
SegNumStr == Seg([tag |-> "numstr", s |-> 12, f |-> 5000000], Str(<<"n">>))
SegNoStart == Seg(NoValue, Str(<<"q">>))
SegNoText == Seg(Num(7, 0), NoText)
\* "start": "abc"
SegBadStart == Seg([tag |-> "badstr", s |-> 0, f |-> 0], Str(<<"b">>))
\* "text": 5
SegNonStrText == Seg(Num(7, 0), [tag |-> "nonstr", v |-> <<>>])
\* an entry of the list that is a string, a number, null or a list
SegNotDict == [isdict |-> FALSE, start |-> NoValue, text |-> NoText]
\* "text": "a\nb"
SegTwoLines == Seg(Num(7, 0), Str(<<"a", "\n", "b">>))
\* "text": "\ud800"
SegSurrogate == Seg(Num(7, 0), Str(<<"U+D800">>))

SegKinds ==
    {SegZero, SegMinute, SegHour, SegNearMinute, SegDay, SegNumStr, SegNoStart,
     SegNoText, SegBadStart, SegNonStrText, SegNotDict, SegTwoLines,
     SegSurrogate}

SegLists == UNION {[1..n -> SegKinds] : n \in 0..MaxSegs}

Doc(segs) == [kind |-> "dict", segtag |-> "list", segs |-> segs]
GarbageDoc == [kind |-> "garbage", segtag |-> "missing", segs |-> <<>>]
ListDoc == [kind |-> "list", segtag |-> "missing", segs |-> <<>>]
NotListDoc == [kind |-> "dict", segtag |-> "notlist", segs |-> <<>>]

Docs ==
    {Doc(segs) : segs \in SegLists}
    \cup {GarbageDoc, ListDoc, NoSegmentsDoc, NotListDoc}

File(name, content) == [name |-> name, content |-> content]
OtherJson == <<"z", ".", "json">>
HiddenJson == <<".", "h", ".", "json">>
NotesTxt == <<"n", ".", "txt">>

\* a derived file left by an earlier conversion
OldTxt == TxtContent(<<"o", "l", "d">>)

\* the places the document may be in: at the exact path, also behind an
\* older artifact, under a suffixed name, under an unrelated name, next to
\* a second unrelated artifact, in a dot file, nowhere, or at the exact
\* path next to an earlier derived file
Layouts(base, doc) ==
    { <<File(JsonName(base), doc)>>,
      <<File(OtherJson, NoSegmentsDoc), File(JsonName(base), doc)>>,
      <<File(NotesTxt, TxtContent(<<>>)),
        File(base \o <<"_", "v", ".", "json">>, doc)>>,
      <<File(OtherJson, doc)>>,
      <<File(OtherJson, doc),
        File(<<"y", ".", "json">>, NoSegmentsDoc)>>,
      <<File(HiddenJson, doc)>>,
      <<File(NotesTxt, TxtContent(<<>>))>>,
      <<File(TxtName(base), OldTxt), File(JsonName(base), doc)>> }

ConvInit ==
    /\ ACTIVATE_SCRIPT = "None"
    /\ cwdIsScriptDir = TRUE
    /\ file_input \in FileTexts \ {EmptyText}
    /\ output_dir_input \in DirTexts
    /\ timestamped_txt_checkbox = TRUE
    /\ run_btn = TRUE
    /\ cancel_btn = FALSE
    /\ log = <<>>
    /\ cancelDialog = FALSE
    /\ ncancels = 0
    /\ njobs = 0
    /\ worker = [j \in Jobs |-> IdleWorker]
    /\ chan = <<>>
    /\ \E doc \in Docs, present \in BOOLEAN :
         \E files \in Layouts(BaseOf(Strip(file_input)), doc) :
            fs = [d \in Dirs |->
                    IF d = OutDirOf(output_dir_input) /\ present
                    THEN [exists |-> TRUE, files |-> files]
                    ELSE [exists |-> FALSE, files |-> <<>>]]
    /\ tempScript = FALSE
    /\ ppCalls = <<>>

\* self._create_timestamped_txt(), called outside any job
ConvRun ==
    /\ Len(ppCalls) < MaxRuns
    /\ LET r == CreateTimestampedTxt(file_input, output_dir_input, fs)
       IN  /\ fs' = r.fs
           /\ log' = log \o Tagged(r.logs, 0)
           /\ ppCalls' = Append(ppCalls,
                  PpRecord(0, 0, file_input, output_dir_input, fs, r))
    /\ UNCHANGED <<config, fields, buttons, cancelDialog, counters, worker,
                   chan, tempScript>>

ConvNext == ConvRun

ConvSpec == ConvInit /\ [][ConvNext]_vars

(***************************************************************************)
(* Properties.                                                             *)
(***************************************************************************)
Emitted(j) == worker[j].emitted

\* the positions of worker j's emissions of one signal
SigIdx(j, sig) == {i \in 1..Len(Emitted(j)) : Emitted(j)[i].sig = sig}

FinishTags == {"Process finished successfully.", "Process exited with code"}

\* the positions of the log entries _on_finished wrote for job j
HandledIdx(j) ==
    {i \in 1..Len(log) : log[i].job = j /\ log[i].tag \in FinishTags}

\* worker j's run() has returned
RunReturned(j) == worker[j].pc = "done"

\* C1, as stated: a job that has run to its end has delivered exactly one
\* terminal signal, either finished or error, never both.
C1_ExactlyOneOfFinishedOrError ==
    \A j \in Jobs :
        RunReturned(j) =>
            Cardinality(SigIdx(j, "finished")) + Cardinality(SigIdx(j, "error")) = 1

\* C1, amended: every job emits exactly one finished signal, as its last
\* emission, and _on_finished runs at most once for it; the error signal is
\* emitted at most once, and where it is emitted finished(-1) follows it
\* directly (both signals are delivered for that job).
C1_OneFinishedPerJob ==
    \A j \in Jobs :
        LET e == Emitted(j)
        IN  /\ Cardinality(SigIdx(j, "finished")) <= 1
            /\ Cardinality(SigIdx(j, "error")) <= 1
            /\ Cardinality(HandledIdx(j)) <= 1
            /\ RunReturned(j) =>
                  /\ Cardinality(SigIdx(j, "finished")) = 1
                  /\ e[Len(e)].sig = "finished"
                  /\ \A i \in SigIdx(j, "error") :
                        i + 1 = Len(e) /\ e[i + 1].code = -1
            /\ \A i \in SigIdx(j, "finished") : i = Len(e) /\ RunReturned(j)

\* a job whose run() went through the exception handler has returned
C1_Witness ==
    \E j \in Jobs :
        /\ RunReturned(j)
        /\ SigIdx(j, "error") # {}
        /\ SigIdx(j, "finished") # {}
        /\ HandledIdx(j) # {}

\* the read loop of worker j ended through its break
LoopEnded(j) == worker[j].returncode.set

\* C2, as stated: once the child was launched and the read loop has ended,
\* the finished signal carries the child's exit status, on the activation
\* path and on the fallback path (ACTIVATE_SCRIPT is None) alike.
C2_FinishedCarriesExitStatus ==
    \A j \in Jobs :
        LoopEnded(j) =>
            \A i \in SigIdx(j, "finished") :
                Emitted(j)[i].code = worker[j].status

\* C3: in what worker j emits, and in what the log holds for job j, no
\* progress line comes after an error or a finished outcome.
C3_NoProgressAfterOutcome ==
    \A j \in Jobs :
        /\ \A i \in SigIdx(j, "error") \cup SigIdx(j, "finished") :
              \A k \in SigIdx(j, "progress") : k < i
        /\ \A p, q \in 1..Len(log) :
              (/\ p < q
               /\ log[p].job = j /\ log[q].job = j
               /\ log[p].tag \in FinishTags \cup {"[ERROR]"})
              => log[q].tag # "progress"

\* a job's lines and its outcome have all reached the log
C3_Witness ==
    \E j \in Jobs :
        /\ Cardinality(SigIdx(j, "progress")) >= 2
        /\ HandledIdx(j) # {}
        /\ \E p \in 1..Len(log) : log[p].job = j /\ log[p].tag = "progress"

\* the launch of worker j raised: no process was started
LaunchRaised(j) == RunReturned(j) /\ worker[j].proc = "none"

\* C4, as stated: a job whose program cannot be spawned emits no progress
\* line and exactly one error signal, whichever launch path is taken.
C4_UnspawnableGivesOnlyLaunchError ==
    \A j \in Jobs :
        (RunReturned(j) /\ ~worker[j].spawnable) =>
            /\ SigIdx(j, "progress") = {}
            /\ Cardinality(SigIdx(j, "error")) = 1

\* C4, amended: a job whose launch raises (the token list of a program that
\* cannot be spawned handed to Popen, or the batch script that cannot be
\* written) emits no progress line and exactly one error signal carrying the
\* exception's message, followed by finished(-1).  A program that cannot be
\* spawned makes the launch raise on the direct path only: on the activation
\* path the shell starts all the same, and the job ends with the finished
\* signal the read loop or its handler produces.
C4_LaunchFailureGivesOnlyLaunchError ==
    \A j \in Jobs :
        /\ LaunchRaised(j) =>
              /\ Len(Emitted(j)) = 2
              /\ Emitted(j)[1].sig = "error"
              /\ Emitted(j)[1].text = worker[j].exc
              /\ worker[j].exc # <<>>
              /\ Emitted(j)[2].sig = "finished"
              /\ Emitted(j)[2].code = -1
        /\ (RunReturned(j) /\ ~worker[j].spawnable /\ ~worker[j].viaShell)
              => LaunchRaised(j)
        /\ (RunReturned(j) /\ ~worker[j].spawnable /\ worker[j].viaShell)
              => (worker[j].proc = "exited" \/ SigIdx(j, "error") # {})

\* a direct launch of a program that cannot be spawned has been reported
C4_Witness ==
    \E j \in Jobs :
        /\ LaunchRaised(j)
        /\ ~worker[j].spawnable
        /\ ~worker[j].viaShell
        /\ \E p \in 1..Len(log) : log[p].job = j /\ log[p].tag = "[ERROR]"

\* the progress signals worker j emitted, in emission order
Progress(j) == SelectSeq(Emitted(j), LAMBDA m : m.sig = "progress")

\* the progress entries the log holds for job j, in log order
Logged(j) == SelectSeq(log, LAMBDA e : e.job = j /\ e.tag = "progress")

\* C5, as stated: when a job is over, every line its child wrote has been
\* emitted as one progress signal, in the order written.
C5_EveryLineDelivered ==
    \A j \in Jobs :
        (RunReturned(j) /\ worker[j].proc # "none") =>
            /\ Len(Progress(j)) = Len(worker[j].written)
            /\ \A i \in 1..Len(Progress(j)) : Progress(j)[i].idx = i

\* C5, amended: the progress signals of a job are at every moment the first
\* lines its child wrote, one signal per line, in order and stripped, and the
\* log holds the first of those; when the read loop ends through its break
\* the stream is exhausted, the process has exited and every line written has
\* been emitted.  (A readline that raises ends the loop early: the lines not
\* yet read are never delivered.)
C5_LinesDeliveredInOrder ==
    \A j \in Jobs :
        /\ Len(Progress(j)) <= Len(worker[j].written)
        /\ \A i \in 1..Len(Progress(j)) :
              /\ Progress(j)[i].idx = i
              /\ Progress(j)[i].text = Strip(worker[j].written[i].raw)
        /\ Len(Logged(j)) <= Len(Progress(j))
        /\ \A i \in 1..Len(Logged(j)) :
              /\ Logged(j)[i].idx = i
              /\ Logged(j)[i].text = Progress(j)[i].text
        /\ LoopEnded(j) =>
              /\ Len(Progress(j)) = Len(worker[j].written)
              /\ worker[j].pipe = <<>>
              /\ ~worker[j].stdoutOpen
              /\ worker[j].proc = "exited"

\* a read loop has ended after the child wrote two lines
C5_Witness ==
    \E j \in Jobs :
        /\ LoopEnded(j)
        /\ Len(worker[j].written) >= 2
        /\ Len(Logged(j)) = Len(worker[j].written)

\* C6, as stated: a child that exits with a non-zero status after k lines
\* (all of them read) is reported by exactly k progress signals followed by
\* the finished signal carrying that status, and the post-processor is not
\* run for that job; the post-processor only ever runs for exit code 0.
C6_NonZeroExitReported ==
    /\ \A j \in Jobs :
          (RunReturned(j) /\ LoopEnded(j) /\ worker[j].status # 0) =>
              /\ Len(Emitted(j)) = Len(worker[j].written) + 1
              /\ \A i \in 1..Len(worker[j].written) :
                    Emitted(j)[i].sig = "progress"
              /\ Emitted(j)[Len(Emitted(j))].sig = "finished"
              /\ Emitted(j)[Len(Emitted(j))].code = worker[j].status
              /\ \A i \in 1..Len(ppCalls) : ppCalls[i].job # j
    /\ \A i \in 1..Len(ppCalls) : ppCalls[i].code = 0

\* C7, as stated: the post-processor runs on the input file and the output
\* directory its job was launched with.
C7_PostProcessUsesLaunchInputs ==
    \A i \in 1..Len(ppCalls) :
        /\ ppCalls[i].infile = worker[ppCalls[i].job].cmd.infile
        /\ ppCalls[i].outdir = worker[ppCalls[i].job].cmd.outdir

CancelEntry == Entry("Cancel requested (best effort).", <<>>, 0, 0)

\* C8: a step of the cancel handler (the request opening its message box, or
\* the box being closed) changes neither the buttons, nor any worker or child
\* process, nor the queued signals, nor the files; it emits no signal, and all
\* it adds to the log is the one "Cancel requested" entry, when the box is
\* closed.
C8_CancelChangesNothing ==
    [][ (ncancels' # ncancels \/ cancelDialog' # cancelDialog) =>
           /\ UNCHANGED <<run_btn, cancel_btn, worker, chan, fs, tempScript,
                          ppCalls, njobs, fields>>
           /\ IF cancelDialog
              THEN ~cancelDialog' /\ log' = Append(log, CancelEntry)
              ELSE cancelDialog' /\ log' = log /\ cancel_btn ]_vars

\* a cancel request was logged and, after it, the job's own exit status
C8_Witness ==
    \E j \in Jobs : \E p, q \in 1..Len(log) :
        /\ p < q
        /\ log[p].tag = CancelEntry.tag
        /\ log[q].job = j
        /\ log[q].tag = "Process exited with code"
        /\ log[q].code = worker[j].status
        /\ worker[j].status # 0

\* C9: every worker handed to the thread pool leads to its finished signal
\* being handled by _on_finished, which gives the Transcribe button back,
\* whatever raises on the way.
C9_StartedJobReachesOnFinished ==
    \A j \in Jobs :
        (worker[j].pc = "start") ~> (HandledIdx(j) # {} /\ run_btn)

\* _on_finished has run for a job whose read loop was left by an exception
C9_Witness ==
    \E j \in Jobs :
        /\ HandledIdx(j) # {}
        /\ run_btn
        /\ worker[j].proc # "none"
        /\ ~LoopEnded(j)

\* C10: every conversion resolves its artifact as the exact path
\* <outdir>/<base>.json when that exists, otherwise as the first match of
\* <base>*.json in the output directory, otherwise as the first match of
\* *.json there; with no candidate it fails with "JSON output not found"
\* after the entry listing the directory's contents has been logged.
C10_ResolutionPriorityThenNotFound ==
    \A k \in 1..Len(ppCalls) :
        LET p == ppCalls[k]
            d == p.before[p.outdir]
            base == BaseOf(p.infile)
            scoped == GlobNames(d, ScopedPattern(base))
            unscoped == GlobNames(d, UnscopedPattern)
        IN  IF PathExists(d, JsonName(base))
            THEN p.found /\ p.artifact = JsonName(base)
            ELSE IF scoped # <<>>
            THEN p.found /\ p.artifact = scoped[1]
            ELSE IF unscoped # <<>>
            THEN p.found /\ p.artifact = unscoped[1]
            ELSE /\ ~p.found
                 /\ p.raised = "JSON output not found"
                 /\ \E q \in 1..Len(p.logs) :
                       p.logs[q].tag = "Files in output directory"

\* the state of <outdir>/<base>.timestamped.txt in a file system
DerivedFile(fsys, outdir, base) ==
    LET d == fsys[outdir]
    IN  IF PathExists(d, TxtName(base))
        THEN [there |-> TRUE,
              content |-> d.files[FileIndex(d, TxtName(base))].content.segs]
        ELSE [there |-> FALSE, content |-> <<>>]

\* the failures of the artifact: not found, does not decode or has no
\* segment list, or yields no line
ArtifactFailures ==
    {"JSON output not found", "ListdirError", "Invalid JSON file",
     "AttributeError", "segments missing or not a list", "No valid segments"}

\* C11: a conversion that fails because the artifact is not found, does not
\* decode, has no segment list or yields no valid line leaves
\* <outdir>/<base>.timestamped.txt as it was: absent if it was absent, with
\* its earlier content if it was there.
C11_FailedConversionWritesNothing ==
    \A k \in 1..Len(ppCalls) :
        LET p == ppCalls[k]
        IN  p.raised \in ArtifactFailures =>
               DerivedFile(p.after, p.outdir, BaseOf(p.infile))
                  = DerivedFile(p.before, p.outdir, BaseOf(p.infile))

\* a conversion failed for want of a valid segment while an earlier derived
\* file was there
C11_Witness ==
    \E k \in 1..Len(ppCalls) :
        /\ ppCalls[k].raised = "No valid segments"
        /\ DerivedFile(ppCalls[k].before, ppCalls[k].outdir,
                       BaseOf(ppCalls[k].infile)).there
        /\ fs = ppCalls[k].after

\* the lines of a text: content.split("\n")
RECURSIVE SplitLines(_)
SplitLines(tokens) ==
    LET k == FirstIndexOf(tokens, "\n")
    IN  IF k = 0 THEN <<tokens>>
        ELSE <<SubSeq(tokens, 1, k - 1)>>
             \o SplitLines(SubSeq(tokens, k + 1, Len(tokens)))

\* a segment with a start offset and a text: a record whose start is a
\* number and whose text is a string
WellFormed(seg) ==
    seg.isdict /\ seg.start.tag \in {"num", "numstr"} /\ seg.text.tag = "str"

\* a record that lacks its start or its text
Partial(seg) == seg.isdict /\ (seg.start.tag = "none" \/ seg.text.tag = "none")

\* the document a conversion read
DocOf(p) ==
    LET d == p.before[p.outdir]
    IN  d.files[FileIndex(d, p.artifact)].content

\* C12: a conversion of a document whose segment list holds only
\* well-formed segments and segments lacking start or text, at least one of
\* them well-formed, leaves a derived file whose lines are, in document
\* order, the lines of the well-formed segments: one per segment.
C12_OneLinePerWellFormedSegment ==
    \A k \in 1..Len(ppCalls) :
        LET p == ppCalls[k]
            segs == DocOf(p).segs
            kept == SelectSeq(segs, WellFormed)
        IN  (/\ p.found
             /\ DocOf(p).kind = "dict"
             /\ DocOf(p).segtag = "list"
             /\ \A i \in 1..Len(segs) : WellFormed(segs[i]) \/ Partial(segs[i])
             /\ kept # <<>>)
            => LET out == DerivedFile(p.after, p.outdir, BaseOf(p.infile))
               IN  /\ p.raised = "none"
                   /\ out.there
                   /\ Len(SplitLines(out.content)) = Len(kept)
                   /\ \A i \in 1..Len(kept) :
                         SplitLines(out.content)[i] = LineOf(kept[i])

\* an entry with a problem of its own: a start that is no number, a text
\* that is no string, or no record at all
Problem(seg) ==
    \/ ~seg.isdict
    \/ /\ ~Partial(seg)
       /\ (seg.start.tag = "badstr" \/ seg.text.tag = "nonstr")

\* a well-formed segment whose text the derived file can hold
Valid(seg) == WellFormed(seg) /\ ~WriteRaises(seg.text.v)

Warnings(logs) ==
    Cardinality({i \in 1..Len(logs) : logs[i].tag = "Warning: Skipping segment"})

\* C13: when the segment list read holds entries with a problem of their
\* own next to valid segments, the conversion succeeds, every valid segment
\* yields its line, in order, and each entry with a problem is skipped with
\* one warning.
C13_BadEntrySkippedWithWarning ==
    \A k \in 1..Len(ppCalls) :
        LET p == ppCalls[k]
            segs == DocOf(p).segs
            kept == SelectSeq(segs, Valid)
            bad == SelectSeq(segs, Problem)
        IN  (/\ p.found
             /\ DocOf(p).kind = "dict"
             /\ DocOf(p).segtag = "list"
             /\ \A i \in 1..Len(segs) :
                   Valid(segs[i]) \/ Partial(segs[i]) \/ Problem(segs[i])
             /\ kept # <<>>
             /\ bad # <<>>)
            => /\ p.raised = "none"
               /\ p.lines = [i \in 1..Len(kept) |-> LineOf(kept[i])]
               /\ Warnings(p.logs) = Len(bad)

\* H:MM:SS of n whole seconds: H = n div 3600, MM = (n div 60) mod 60,
\* SS = n mod 60
TruncatedClock(n) ==
    <<ToString(n \div SecondsPerHour), ":",
      TwoDigits((n \div SecondsPerMinute) % SecondsPerMinute), ":",
      TwoDigits(n % SecondsPerMinute)>>

\* C14: in every successful conversion the line of each valid segment, whose
\* start offset is s whole seconds and a fraction, is "[H:MM:SS] text" with
\* H:MM:SS the clock of floor(s): the fraction is cut off, not rounded.
C14_ClockIsTruncatedHMS ==
    \A k \in 1..Len(ppCalls) :
        LET p == ppCalls[k]
            kept == SelectSeq(DocOf(p).segs, Valid)
        IN  (p.found /\ p.raised = "none") =>
               /\ Len(p.lines) = Len(kept)
               /\ \A i \in 1..Len(kept) :
                     p.lines[i] = <<"[">> \o TruncatedClock(kept[i].start.s)
                                  \o <<"]", " ">> \o Strip(kept[i].text.v)

\* C15: when a conversion has succeeded and the converter is run again on
\* what it left, with the same input file and output directory, the second
\* run succeeds too, resolves the same artifact in the same way, and leaves
\* the derived file, and the whole output directory, as the first run left
\* them.
C15_ConversionIsIdempotent ==
    \A k \in 1..(Len(ppCalls) - 1) :
        LET p == ppCalls[k]
            q == ppCalls[k + 1]
        IN  (/\ p.raised = "none"
             /\ q.infile = p.infile
             /\ q.outdir = p.outdir
             /\ q.before = p.after)
            => /\ q.raised = "none"
               /\ q.artifact = p.artifact
               /\ q.via = p.via
               /\ DerivedFile(q.after, q.outdir, BaseOf(q.infile))
                     = DerivedFile(p.after, p.outdir, BaseOf(p.infile))
               /\ q.after = p.after

\* the converter ran twice on an artifact found by the unscoped pattern,
\* next to a second artifact, and wrote the derived file
C15_Witness ==
    /\ Len(ppCalls) = 2
    /\ ppCalls[1].raised = "none"
    /\ ppCalls[1].via = 2
    /\ Len(ppCalls[1].before[ppCalls[1].outdir].files) = 2
    /\ ppCalls[2].before = ppCalls[1].after
    /\ DerivedFile(fs, ppCalls[2].outdir, BaseOf(ppCalls[2].infile)).there

\* _on_finished has handled job j's finished signal with exit code 0
Succeeded(j) ==
    \E q \in 1..Len(log) :
        log[q].job = j /\ log[q].tag = "Process finished successfully."

\* the post-processor has been run for job j
PostProcessed(j) == \E i \in 1..Len(ppCalls) : ppCalls[i].job = j

\* C16: once a job's success has been handled, the post-processor has run
\* for it exactly if the timestamp option was checked when the job was
\* launched (the launch that forced the output format to "all"); the
\* post-processor runs for no other job.
C16_PostProcessIffRequestedAtLaunch ==
    /\ \A j \in Jobs : Succeeded(j) => (PostProcessed(j) <=> worker[j].requested)
    /\ \A i \in 1..Len(ppCalls) :
          /\ ppCalls[i].job \in Jobs
          /\ worker[ppCalls[i].job].requested

ConversionError == "[ERROR] Failed to create timestamped TXT"

\* C17: every step that takes a finished signal off the queue is a complete
\* run of _on_finished: the buttons are reset and the log gains the entries
\* of that job's outcome.  For exit code 0 the first is the success entry,
\* and if the post-processor ran and raised, the last is the [ERROR] entry
\* carrying what it raised (and there is none if it did not raise); for any
\* other exit code the one entry added reports that code.
C17_EveryOutcomeIsLogged ==
    [][ (chan # <<>> /\ Head(chan).sig = "finished" /\ chan' = Tail(chan)) =>
          LET m == Head(chan)
              new == SubSeq(log', Len(log) + 1, Len(log'))
              errs == {i \in 1..Len(new) : new[i].tag = ConversionError}
          IN  /\ run_btn' /\ ~cancel_btn'
              /\ SubSeq(log', 1, Len(log)) = log
              /\ new # <<>>
              /\ \A i \in 1..Len(new) : new[i].job = m.job
              /\ IF m.code = 0
                 THEN /\ new[1].tag = "Process finished successfully."
                      /\ IF /\ ppCalls' # ppCalls
                            /\ ppCalls'[Len(ppCalls')].raised # "none"
                         THEN /\ errs = {Len(new)}
                              /\ new[Len(new)].text
                                    = <<ppCalls'[Len(ppCalls')].raised>>
                         ELSE errs = {}
                 ELSE new = <<Entry("Process exited with code", <<>>,
                                    m.code, m.job)>> ]_vars

\* a job has been reported as successful and, after that, the failure of
\* its post-processor on a document without segment list as an [ERROR] entry
C17_Witness ==
    \E j \in Jobs : \E p, q \in 1..Len(log) :
        /\ p < q
        /\ log[p].job = j /\ log[p].tag = "Process finished successfully."
        /\ log[q].job = j /\ log[q].tag = ConversionError
        /\ log[q].text = <<"segments missing or not a list">>
        /\ run_btn

\* job j is in flight: launched, its outcome not yet handled by _on_finished
InFlight(j) == worker[j].pc # "idle" /\ HandledIdx(j) = {}

\* worker j's run() is executing
Running(j) == worker[j].pc \notin {"idle", "done"}

ViaActivation(j) == worker[j].viaShell

\* the terminal outcome of job j has been emitted
OutcomeEmitted(j) == SigIdx(j, "finished") # {}

\* C19: once a job run through the venv activation path has emitted its
\* terminal outcome, the temporary batch script run_whisperx.bat no longer
\* exists, whatever the working directory is.
C19_TempScriptRemovedAtOutcome ==
    \A j \in Jobs : (ViaActivation(j) /\ OutcomeEmitted(j)) => ~tempScript

=============================================================================
